---- MODULE Spec2Model ----
(***************************************************************************)
(* State-machine model of omni.isaac.orbit.sim.SimulationContext           *)
(* (simulation_context.py): construction, the render-mode state machine,   *)
(* the throttled render(), the blocking step(), reset()/reset_async() and  *)
(* the shutdown-on-stop timeline callback.                                 *)
(*                                                                         *)
(* The host engine (timeline, application, recorder, base class) is the    *)
(* environment: its answers are drawn nondeterministically.                *)
(***************************************************************************)
EXTENDS Naturals, Integers, Sequences, FiniteSets

VARIABLES
    phase,                    \* "new" | "failed" | "alive": lifecycle of the adapter object
    stage_exists,             \* stage_utils.get_current_stage() is not None
    settings,                 \* carb settings written so far: set of <<key, value>>
    base_init,                \* super().__init__ has been invoked
    cfg,                      \* self.cfg (the fields the modelled code reads)
    is_headless,              \* self._is_headless
    render_mode,              \* self.render_mode
    updates_enabled,          \* self._viewport_context.updates_enabled
    visible,                  \* self._viewport_window.visible
    render_throttle_counter,  \* self._render_throttle_counter
    fabric_iface,             \* self._fabric_iface is not None
    timeline,                 \* engine timeline: "playing" | "paused" | "stopped"
    shutdown_callbacks,       \* number of timeline subscriptions named "shutdown_app_on_stop"
    step_pc,                  \* position inside step()
    sd_pc,                    \* position inside _shutdown_app_on_stop_callback
    app_running,              \* self.app has not been shut down
    plugins_loaded,           \* carb plugins not yet unloaded
    \* ---- history variables, read only by the properties ----
    lastOp,                   \* name of the last operation / step taken
    err,                      \* error the last step raised ("none" if none)
    baseRendered,             \* the last step was a render() that called super().render()
    flushed,                  \* the last step was a render() that flushed the fabric bridge
    renderCalls,              \* render() invocations since NO_RENDERING was entered
    failedRenderCalls,        \* ... of which raised in set_render_mode
    resetCalls,               \* synchronous reset() calls completed (counted up to ResetCountCap)
    entered_playing,          \* is_playing() on entry of the step() in progress
    observed,                 \* timeline state seen by the check that left the loop of step()
    step_base_steps,          \* super().step() delegations of the step() in progress
    step_updates,             \* app.update() ticks of the step() in progress
    recorder,                 \* what the recorder block of the shutdown callback did
    renderLog                 \* the engine calls of the last render(), in their order

adapterVars == <<render_mode, updates_enabled, visible, render_throttle_counter>>
ctorVars    == <<phase, stage_exists, settings, base_init, cfg, is_headless, fabric_iface>>
stepVars    == <<step_pc, entered_playing, observed, step_base_steps, step_updates>>
sdVars      == <<sd_pc, app_running, plugins_loaded, recorder>>
countVars   == <<renderCalls, failedRenderCalls>>
vars == <<phase, stage_exists, settings, base_init, cfg, is_headless, render_mode,
          updates_enabled, visible, render_throttle_counter, fabric_iface, timeline,
          shutdown_callbacks, step_pc, sd_pc, app_running, plugins_loaded, lastOp, err,
          baseRendered, flushed, renderCalls, failedRenderCalls, resetCalls,
          entered_playing, observed, step_base_steps, step_updates, recorder,
          renderLog>>

\* the history of the last step: its name, its error, and what a render() did
Last(op, e, base, flush) ==
    /\ lastOp' = op
    /\ err' = e
    /\ baseRendered' = base
    /\ flushed' = flush
    /\ renderLog' = <<>>

----------------------------------------------------------------------------
(* Bounds of the model *)

\* render() invocations followed while the adapter stays in NO_RENDERING
MaxRenderCalls == 10
\* of which may fail with ValueError
MaxFailedCalls == 1
\* reset() calls are counted up to this number
ResetCountCap == 2

----------------------------------------------------------------------------
(* class RenderMode(enum.Enum) *)

HEADLESS          == "HEADLESS"
NO_RENDERING      == "NO_RENDERING"
PARTIAL_RENDERING == "PARTIAL_RENDERING"
FULL_RENDERING    == "FULL_RENDERING"
RenderMode        == {HEADLESS, NO_RENDERING, PARTIAL_RENDERING, FULL_RENDERING}

\* a value that is no member of RenderMode (Python does not type-check the argument)
NotAMode == "NOT_A_MODE"
\* mode=None, the default of render()
NoneMode == "None"
\* what a caller may pass to set_render_mode / render
ModeArgs == RenderMode \cup {NotAMode}

\* self._render_throttle_period
render_throttle_period == 5

----------------------------------------------------------------------------
(* The adapter fields set_render_mode and render work on *)

Adapter == [render_mode |-> render_mode, updates_enabled |-> updates_enabled,
            visible |-> visible, counter |-> render_throttle_counter]

\* the guard without its HEADLESS test
ModeChangeGuard_NoHeadlessTest(s, mode) == mode # s.render_mode

\* `if mode != self.render_mode and self.render_mode != self.RenderMode.HEADLESS`
ModeChangeGuard(s, mode) == mode # s.render_mode /\ s.render_mode # HEADLESS

\* the branches without the raising else branch: an unsupported mode is stored
ApplyMode_NoElse(s, mode) ==
    IF mode = FULL_RENDERING
    THEN [state |-> [s EXCEPT !.updates_enabled = TRUE, !.visible = TRUE,
                              !.render_mode = mode],
          err |-> "none"]
    ELSE IF mode = PARTIAL_RENDERING
    THEN [state |-> [s EXCEPT !.updates_enabled = FALSE, !.visible = FALSE,
                              !.render_mode = mode],
          err |-> "none"]
    ELSE IF mode = NO_RENDERING
    THEN [state |-> [s EXCEPT !.updates_enabled = FALSE, !.visible = FALSE,
                              !.counter = 0, !.render_mode = mode],
          err |-> "none"]
    ELSE [state |-> [s EXCEPT !.render_mode = mode], err |-> "none"]

\* the branches with a PARTIAL_RENDERING branch that hides the window only
ApplyMode_PartialKeepsUpdates(s, mode) ==
    IF mode = FULL_RENDERING
    THEN [state |-> [s EXCEPT !.updates_enabled = TRUE, !.visible = TRUE,
                              !.render_mode = mode],
          err |-> "none"]
    ELSE IF mode = PARTIAL_RENDERING
    THEN [state |-> [s EXCEPT !.visible = FALSE, !.render_mode = mode],
          err |-> "none"]
    ELSE IF mode = NO_RENDERING
    THEN [state |-> [s EXCEPT !.updates_enabled = FALSE, !.visible = FALSE,
                              !.counter = 0, !.render_mode = mode],
          err |-> "none"]
    ELSE [state |-> s, err |-> "ValueError"]

\* the branches with HEADLESS taken as one more mode that hides the viewport
ApplyMode_HeadlessAccepted(s, mode) ==
    IF mode = FULL_RENDERING
    THEN [state |-> [s EXCEPT !.updates_enabled = TRUE, !.visible = TRUE,
                              !.render_mode = mode],
          err |-> "none"]
    ELSE IF mode \in {PARTIAL_RENDERING, HEADLESS}
    THEN [state |-> [s EXCEPT !.updates_enabled = FALSE, !.visible = FALSE,
                              !.render_mode = mode],
          err |-> "none"]
    ELSE IF mode = NO_RENDERING
    THEN [state |-> [s EXCEPT !.updates_enabled = FALSE, !.visible = FALSE,
                              !.counter = 0, !.render_mode = mode],
          err |-> "none"]
    ELSE [state |-> s, err |-> "ValueError"]

\* the branches of set_render_mode under its guard. The assignments of a branch
\* happen before `self.render_mode = mode`; the raise of the else branch happens
\* before any assignment.
ApplyMode(s, mode) ==
    IF mode = FULL_RENDERING
    THEN [state |-> [s EXCEPT !.updates_enabled = TRUE, !.visible = TRUE,
                              !.render_mode = mode],
          err |-> "none"]
    ELSE IF mode = PARTIAL_RENDERING
    THEN [state |-> [s EXCEPT !.updates_enabled = FALSE, !.visible = FALSE,
                              !.render_mode = mode],
          err |-> "none"]
    ELSE IF mode = NO_RENDERING
    THEN [state |-> [s EXCEPT !.updates_enabled = FALSE, !.visible = FALSE,
                              !.counter = 0, !.render_mode = mode],
          err |-> "none"]
    ELSE [state |-> s, err |-> "ValueError"]

\* def set_render_mode(self, mode): the fields after the call and the error raised
SetRenderMode(s, mode) ==
    IF ModeChangeGuard(s, mode) THEN ApplyMode(s, mode)
    ELSE [state |-> s, err |-> "none"]

\* the throttled branch without the reset of the counter
ThrottledRender_NoReset(counter) ==
    [counter |-> counter + 1, base |-> (counter + 1) % render_throttle_period = 0]

\* the throttled branch of render(): the counter after the call and whether
\* super().render() was called
ThrottledRender(counter) ==
    IF (counter + 1) % render_throttle_period = 0
    THEN [counter |-> 0, base |-> TRUE]
    ELSE [counter |-> counter + 1, base |-> FALSE]

\* the unthrottled branch with the flush made after the base render
FullRender_FlushAfter(fabric) ==
    IF fabric THEN <<"base_render", "fabric_update">> ELSE <<"base_render">>

\* the unthrottled branch of render(): the engine calls it makes, in their order:
\* `if self._fabric_iface is not None: self._fabric_iface.update(0.0, 0.0)`, then
\* `super().render()`
FullRender(fabric) ==
    IF fabric THEN <<"fabric_update", "base_render">> ELSE <<"base_render">>

\* whether the engine call c is among calls
Called(calls, c) == \E i \in 1..Len(calls) : calls[i] = c

\* def render(self, mode=None): fields after the call, error raised, the engine
\* calls made in their order, whether super().render() was called and whether the
\* fabric bridge was flushed.
Render(s, mode, fabric) ==
    LET r == IF mode # NoneMode THEN SetRenderMode(s, mode)
                                ELSE [state |-> s, err |-> "none"]
        t == r.state
    IN  IF r.err # "none"
        THEN [state |-> t, err |-> r.err, base |-> FALSE, flush |-> FALSE,
              calls |-> <<>>]
        ELSE IF t.render_mode = NO_RENDERING
        THEN LET th == ThrottledRender(t.counter)
             IN  [state |-> [t EXCEPT !.counter = th.counter], err |-> "none",
                  base |-> th.base, flush |-> FALSE,
                  calls |-> IF th.base THEN <<"base_render">> ELSE <<>>]
        ELSE LET calls == FullRender(fabric)
             IN  [state |-> t, err |-> "none", base |-> Called(calls, "base_render"),
                  flush |-> Called(calls, "fabric_update"), calls |-> calls]

----------------------------------------------------------------------------
(* Construction: __init__ *)

\* the configurations, restricted to the fields the modelled code reads
Cfgs == [disable_contact_processing : BOOLEAN, shutdown_app_on_stop : BOOLEAN]
\* `if cfg is None: cfg = SimulationCfg()`: the defaults are set outside this file,
\* so the defaulted configuration is any one configuration
SimulationCfg == Cfgs

\* the stage check of __init__: the error it raises
StageCheck(stage) == IF stage THEN "none" ELSE "RuntimeError"

\* the settings written before the stage check is made
InitSettings_BeforeCheck(stageErr, c) ==
    {<<"/persistent/omnihydra/useSceneGraphInstancing", TRUE>>,
     <<"/physics/physxDispatcher", TRUE>>,
     <<"/physics/collisionConeCustomGeometry", FALSE>>,
     <<"/physics/collisionCylinderCustomGeometry", FALSE>>}
    \cup (IF c.disable_contact_processing
          THEN {<<"/physics/disableContactProcessing", TRUE>>} ELSE {})

\* the carb settings __init__ writes, given the outcome of the stage check
InitSettings(stageErr, c) ==
    IF stageErr # "none" THEN {}
    ELSE {<<"/persistent/omnihydra/useSceneGraphInstancing", TRUE>>,
          <<"/physics/physxDispatcher", TRUE>>,
          <<"/physics/collisionConeCustomGeometry", FALSE>>,
          <<"/physics/collisionCylinderCustomGeometry", FALSE>>}
         \cup (IF c.disable_contact_processing
               THEN {<<"/physics/disableContactProcessing", TRUE>>} ELSE {})

\* whether __init__ reaches super().__init__
ReachesBaseInit(stageErr) == stageErr = "none"

\* _load_fabric_interface: whether self._fabric_iface is set
LoadFabricInterface(major, use_flatcache, use_fabric) ==
    IF major = 2022 THEN use_flatcache ELSE use_fabric

Versions == {2022, 2023}

\* __init__(cfg). cfg_is_none: no configuration is passed, and c is then the
\* defaulted one. window_enabled is the "/app/window/enabled" setting, win_visible
\* the visibility of the "Viewport" window when it is acquired, scene_api the
\* presence of the physx scene API when the base constructor initialises the stage.
Construct(cfg_is_none, c, window_enabled, win_visible, scene_api, major, use_flatcache, use_fabric) ==
    LET stageErr == StageCheck(stage_exists)
        headless == ~window_enabled
    IN
    /\ phase = "new"
    /\ c \in (IF cfg_is_none THEN SimulationCfg ELSE Cfgs)
    /\ headless => ~win_visible
    /\ cfg' = c
    /\ settings' = settings \cup InitSettings(stageErr, c)
    /\ base_init' = ReachesBaseInit(stageErr)
    /\ IF stageErr # "none"
       THEN /\ phase' = "failed"
            /\ Last("construct", stageErr, FALSE, FALSE)
            /\ UNCHANGED <<is_headless, adapterVars, fabric_iface>>
       ELSE /\ is_headless' = headless
            /\ render_mode' = IF headless THEN HEADLESS ELSE FULL_RENDERING
            /\ updates_enabled' = ~headless
            /\ visible' = win_visible
            /\ render_throttle_counter' = 0
            \* super().__init__ -> _init_stage -> _set_additional_physx_params,
            \* _load_fabric_interface
            /\ IF scene_api
               THEN /\ phase' = "alive"
                    /\ Last("construct", "none", FALSE, FALSE)
                    /\ fabric_iface' = LoadFabricInterface(major, use_flatcache, use_fabric)
               ELSE /\ phase' = "failed"
                    /\ Last("construct", "RuntimeError", FALSE, FALSE)
                    /\ fabric_iface' = FALSE
    /\ UNCHANGED <<stage_exists, timeline, shutdown_callbacks, stepVars, sdVars,
                   countVars, resetCalls>>

----------------------------------------------------------------------------
(* set_render_mode and render *)

\* no call of the controlling thread is in progress and the application is up
Ready == phase = "alive" /\ step_pc = "idle" /\ sd_pc = "idle"

\* render() invocations counted since NO_RENDERING was entered, after an
\* invocation (or a set_render_mode call) that took the fields from s to r.state
NextRenderCalls(s, r, isRender) ==
    IF r.state.render_mode # NO_RENDERING THEN 0
    ELSE IF s.render_mode # NO_RENDERING THEN (IF isRender THEN 1 ELSE 0)
    ELSE IF isRender THEN renderCalls + 1 ELSE renderCalls

NextFailedCalls(s, r, isRender) ==
    IF r.state.render_mode # NO_RENDERING \/ s.render_mode # NO_RENDERING THEN 0
    ELSE IF isRender /\ r.err # "none" THEN failedRenderCalls + 1
    ELSE failedRenderCalls

SetRenderModeCall(mode) ==
    LET s == Adapter
        r == SetRenderMode(s, mode)
    IN
    /\ Ready
    /\ render_mode' = r.state.render_mode
    /\ updates_enabled' = r.state.updates_enabled
    /\ visible' = r.state.visible
    /\ render_throttle_counter' = r.state.counter
    /\ renderCalls' = NextRenderCalls(s, r, FALSE)
    /\ failedRenderCalls' = NextFailedCalls(s, r, FALSE)
    /\ Last("set_render_mode", r.err, FALSE, FALSE)
    /\ UNCHANGED <<ctorVars, timeline, shutdown_callbacks, stepVars, sdVars,
                   resetCalls>>

\* one invocation of render(mode), from the caller or from the loop of step()
DoRender(op, mode) ==
    LET s == Adapter
        r == Render(s, mode, fabric_iface)
    IN
    /\ renderCalls < MaxRenderCalls
    /\ (s.render_mode = NO_RENDERING /\ r.err # "none") => failedRenderCalls < MaxFailedCalls
    /\ render_mode' = r.state.render_mode
    /\ updates_enabled' = r.state.updates_enabled
    /\ visible' = r.state.visible
    /\ render_throttle_counter' = r.state.counter
    /\ renderCalls' = NextRenderCalls(s, r, TRUE)
    /\ failedRenderCalls' = NextFailedCalls(s, r, TRUE)
    /\ lastOp' = op
    /\ err' = r.err
    /\ baseRendered' = r.base
    /\ flushed' = r.flush
    /\ renderLog' = r.calls

RenderCall(mode) ==
    /\ Ready
    /\ DoRender("render", mode)
    /\ UNCHANGED <<ctorVars, timeline, shutdown_callbacks, stepVars, sdVars,
                   resetCalls>>

----------------------------------------------------------------------------
(* reset and reset_async *)

\* the registration guard without the test for an existing callback
ShouldRegister_NoExistsTest(flag, exists) == flag

\* a reset_async that registers like reset()
AsyncRegisters_LikeReset(flag, exists) == flag /\ ~exists

\* the guard of the registration in reset(): cfg.shutdown_app_on_stop and not
\* timeline_callback_exists("shutdown_app_on_stop")
ShouldRegister(flag, exists) == flag /\ ~exists

\* whether reset_async registers the shutdown callback: it never does
AsyncRegisters(flag, exists) == FALSE

\* def reset(self, soft=False). The forced physics reload of a non-soft reset acts
\* on the engine only.
Reset(soft) ==
    /\ Ready
    \* super().reset(soft=soft) plays the simulation
    /\ timeline' = "playing"
    /\ shutdown_callbacks' =
         IF ShouldRegister(cfg.shutdown_app_on_stop, shutdown_callbacks > 0)
         THEN shutdown_callbacks + 1 ELSE shutdown_callbacks
    /\ resetCalls' = IF resetCalls < ResetCountCap THEN resetCalls + 1 ELSE resetCalls
    /\ Last("reset", "none", FALSE, FALSE)
    /\ UNCHANGED <<ctorVars, adapterVars, stepVars, sdVars, countVars>>

\* async def reset_async(self, soft=False), from its call to its completion
ResetAsync(soft) ==
    /\ Ready
    \* await super().reset_async(soft=soft) plays the simulation
    /\ timeline' = "playing"
    /\ shutdown_callbacks' =
         IF AsyncRegisters(cfg.shutdown_app_on_stop, shutdown_callbacks > 0)
         THEN shutdown_callbacks + 1 ELSE shutdown_callbacks
    /\ Last("reset_async", "none", FALSE, FALSE)
    /\ UNCHANGED <<ctorVars, adapterVars, stepVars, sdVars, countVars, resetCalls>>

----------------------------------------------------------------------------
(* step *)

\* self.is_playing() / self.is_stopped()
IsPlaying(tl) == tl = "playing"
IsStopped(tl) == tl = "stopped"

\* `while not self.is_playing()`: the loop is left when this holds
LoopExits(tl) == IsPlaying(tl)
\* a break on every state that is not playing
LoopBreaks_WhenNotPlaying(tl) == ~IsPlaying(tl)

\* `if self.is_stopped(): break`
LoopBreaks(tl) == IsStopped(tl)
\* a loop body that steps the base engine as well
LoopBodySteps_StepsToo == 0 + 1

\* the number of super().step() delegations of the loop body: it only calls render()
LoopBodySteps == 0

\* step(render) is called: `if not self.is_playing()`. The render argument is only
\* handed on to super().step.
StepCall(render) ==
    /\ Ready
    /\ entered_playing' = IsPlaying(timeline)
    /\ step_pc' = IF IsPlaying(timeline) THEN "base" ELSE "while"
    /\ observed' = "none"
    /\ step_base_steps' = 0
    /\ step_updates' = 0
    /\ Last("step_call", "none", FALSE, FALSE)
    /\ UNCHANGED <<ctorVars, adapterVars, timeline, shutdown_callbacks, sdVars,
                   countVars, resetCalls>>

InStep(pc) == phase = "alive" /\ sd_pc = "idle" /\ step_pc = pc

\* the loop condition `while not self.is_playing()`
StepWhile ==
    /\ InStep("while")
    /\ IF LoopExits(timeline)
       THEN step_pc' = "update" /\ observed' = timeline
            /\ Last("step_loop_exit", "none", FALSE, FALSE)
       ELSE step_pc' = "render" /\ observed' = observed
            /\ Last("step_loop", "none", FALSE, FALSE)
    /\ UNCHANGED <<ctorVars, adapterVars, timeline, shutdown_callbacks,
                   entered_playing, step_base_steps, step_updates, sdVars,
                   countVars, resetCalls>>

\* the loop body: self.render()
StepRender ==
    /\ InStep("render")
    /\ DoRender("step_render", NoneMode)
    /\ step_base_steps' = step_base_steps + LoopBodySteps
    /\ step_pc' = "check_stopped"
    /\ UNCHANGED <<ctorVars, timeline, shutdown_callbacks, entered_playing, observed,
                   step_updates, sdVars, resetCalls>>

\* the loop body: `if self.is_stopped(): break`
StepCheckStopped ==
    /\ InStep("check_stopped")
    /\ IF LoopBreaks(timeline)
       THEN step_pc' = "update" /\ observed' = timeline
            /\ Last("step_loop_exit", "none", FALSE, FALSE)
       ELSE step_pc' = "while" /\ observed' = observed
            /\ Last("step_loop", "none", FALSE, FALSE)
    /\ UNCHANGED <<ctorVars, adapterVars, timeline, shutdown_callbacks,
                   entered_playing, step_base_steps, step_updates, sdVars,
                   countVars, resetCalls>>

\* after the loop: self.app.update()
StepUpdate ==
    /\ InStep("update")
    /\ step_updates' = step_updates + 1
    /\ step_pc' = "base"
    /\ Last("step_update", "none", FALSE, FALSE)
    /\ UNCHANGED <<ctorVars, adapterVars, timeline, shutdown_callbacks,
                   entered_playing, observed, step_base_steps, sdVars,
                   countVars, resetCalls>>

\* super().step(render=render)
StepBase ==
    /\ InStep("base")
    /\ step_base_steps' = step_base_steps + 1
    /\ step_pc' = "return"
    /\ Last("step_base", "none", FALSE, FALSE)
    /\ UNCHANGED <<ctorVars, adapterVars, timeline, shutdown_callbacks,
                   entered_playing, observed, step_updates, sdVars,
                   countVars, resetCalls>>

\* step() returns to its caller
StepReturn ==
    /\ InStep("return")
    /\ step_pc' = "idle"
    /\ entered_playing' = FALSE
    /\ observed' = "none"
    /\ step_base_steps' = 0
    /\ step_updates' = 0
    /\ Last("step_return", "none", FALSE, FALSE)
    /\ UNCHANGED <<ctorVars, adapterVars, timeline, shutdown_callbacks, sdVars,
                   countVars, resetCalls>>

----------------------------------------------------------------------------
(* The timeline and _shutdown_app_on_stop_callback *)

TimelineEvents == {"PLAY", "PAUSE", "STOP"}

\* a callback that acts on every timeline event
CallbackActs_AnyEvent(e) == TRUE

\* `if event.type == int(omni.timeline.TimelineEventType.STOP)`
CallbackActs(e) == e = "STOP"

\* what the recorder may do when it is asked: every call of the try block may raise
RecorderOutcomes == {"import_raises", "get_status_raises", "stop_raises",
                     "wait_raises", "stopped_and_waited", "only_waited"}
RecorderFailures == {"import_raises", "get_status_raises", "stop_raises", "wait_raises"}

\* the recorder block without its except clause
RecorderStep_NoExcept(from_terminal, outcome) ==
    IF from_terminal THEN [did |-> "skipped", raised |-> FALSE]
    ELSE IF outcome \in RecorderFailures THEN [did |-> "failed", raised |-> TRUE]
    ELSE [did |-> "completed", raised |-> FALSE]

\* the recorder block: `if not builtins.ISAAC_LAUNCHED_FROM_TERMINAL: try: ...
\* except Exception: pass`: what it did and whether an error leaves the block
RecorderStep(from_terminal, outcome) ==
    IF from_terminal THEN [did |-> "skipped", raised |-> FALSE]
    ELSE IF outcome \in RecorderFailures THEN [did |-> "failed", raised |-> FALSE]
    ELSE [did |-> "completed", raised |-> FALSE]

\* the engine's timeline changes state and dispatches the event to the callbacks
\* registered on it
TimelineEvent(e) ==
    /\ phase = "alive" /\ sd_pc = "idle"
    /\ \/ e = "PLAY"  /\ timeline # "playing" /\ timeline' = "playing"
       \/ e = "PAUSE" /\ timeline = "playing" /\ timeline' = "paused"
       \/ e = "STOP"  /\ timeline # "stopped" /\ timeline' = "stopped"
    /\ sd_pc' = IF shutdown_callbacks > 0 /\ CallbackActs(e) THEN "recorder" ELSE sd_pc
    /\ Last("timeline", "none", FALSE, FALSE)
    /\ UNCHANGED <<ctorVars, adapterVars, shutdown_callbacks, stepVars, app_running,
                   plugins_loaded, recorder, countVars, resetCalls>>

\* what the steps of the callback leave alone
sdFrame == <<phase, settings, base_init, cfg, is_headless, fabric_iface, adapterVars,
             timeline, stepVars, countVars, resetCalls>>

\* the replicator block; from_terminal is builtins.ISAAC_LAUNCHED_FROM_TERMINAL
ShutdownRecorder(from_terminal, outcome) ==
    LET r == RecorderStep(from_terminal, outcome)
    IN
    /\ sd_pc = "recorder"
    /\ recorder' = r.did
    /\ sd_pc' = IF r.raised THEN "raised" ELSE "clear"
    /\ Last("shutdown", IF r.raised THEN "Exception" ELSE "none", FALSE, FALSE)
    /\ UNCHANGED <<sdFrame, stage_exists, shutdown_callbacks, app_running, plugins_loaded>>

\* self.clear_all_callbacks()
ShutdownClear ==
    /\ sd_pc = "clear"
    /\ shutdown_callbacks' = 0
    /\ sd_pc' = "close"
    /\ Last("shutdown", "none", FALSE, FALSE)
    /\ UNCHANGED <<sdFrame, stage_exists, app_running, plugins_loaded, recorder>>

\* `if omni.usd.get_context().can_close_stage(): ...close_stage()`
ShutdownCloseStage(can_close) ==
    /\ sd_pc = "close"
    /\ stage_exists' = IF can_close THEN FALSE ELSE stage_exists
    /\ sd_pc' = "shutdown"
    /\ Last(IF can_close THEN "shutdown_stage_closable" ELSE "shutdown_stage_not_closable",
            "none", FALSE, FALSE)
    /\ UNCHANGED <<sdFrame, shutdown_callbacks, app_running, plugins_loaded, recorder>>

\* self.app.print_and_log(...); self.app.shutdown()
ShutdownApp ==
    /\ sd_pc = "shutdown"
    /\ app_running' = FALSE
    /\ sd_pc' = "unload"
    /\ Last("shutdown", "none", FALSE, FALSE)
    /\ UNCHANGED <<sdFrame, stage_exists, shutdown_callbacks, plugins_loaded, recorder>>

\* carb.get_framework().unload_all_plugins(); the callback returns
ShutdownUnload ==
    /\ sd_pc = "unload"
    /\ plugins_loaded' = FALSE
    /\ sd_pc' = "done"
    /\ Last("shutdown", "none", FALSE, FALSE)
    /\ UNCHANGED <<sdFrame, stage_exists, shutdown_callbacks, app_running, recorder>>

----------------------------------------------------------------------------
(* The specification *)

Init ==
    /\ phase = "new"
    /\ stage_exists \in BOOLEAN
    /\ settings = {}
    /\ base_init = FALSE
    /\ cfg = [disable_contact_processing |-> FALSE, shutdown_app_on_stop |-> FALSE]
    /\ is_headless = FALSE
    /\ render_mode = "unset"
    /\ updates_enabled = FALSE
    /\ visible = FALSE
    /\ render_throttle_counter = 0
    /\ fabric_iface = FALSE
    /\ timeline = "stopped"
    /\ shutdown_callbacks = 0
    /\ step_pc = "idle"
    /\ sd_pc = "idle"
    /\ app_running = TRUE
    /\ plugins_loaded = TRUE
    /\ lastOp = "none"
    /\ err = "none"
    /\ baseRendered = FALSE
    /\ flushed = FALSE
    /\ renderCalls = 0
    /\ failedRenderCalls = 0
    /\ resetCalls = 0
    /\ entered_playing = FALSE
    /\ observed = "none"
    /\ step_base_steps = 0
    /\ step_updates = 0
    /\ recorder = "none"
    /\ renderLog = <<>>

ConstructAny ==
    \E cfg_is_none \in BOOLEAN, c \in Cfgs, window_enabled \in BOOLEAN,
       win_visible \in BOOLEAN, scene_api \in BOOLEAN, major \in Versions,
       use_flatcache \in BOOLEAN, use_fabric \in BOOLEAN :
        Construct(cfg_is_none, c, window_enabled, win_visible, scene_api, major,
                  use_flatcache, use_fabric)
SetRenderModeAny == \E mode \in ModeArgs : SetRenderModeCall(mode)
RenderAny == \E mode \in ModeArgs \cup {NoneMode} : RenderCall(mode)
ResetAny == \E soft \in BOOLEAN : Reset(soft)
ResetAsyncAny == \E soft \in BOOLEAN : ResetAsync(soft)
StepAny == \E render \in BOOLEAN : StepCall(render)
TimelineAny == \E e \in TimelineEvents : TimelineEvent(e)
ShutdownRecorderAny ==
    \E from_terminal \in BOOLEAN, outcome \in RecorderOutcomes :
        ShutdownRecorder(from_terminal, outcome)
ShutdownCloseStageAny == \E can_close \in BOOLEAN : ShutdownCloseStage(can_close)

Next ==
    \/ ConstructAny
    \/ SetRenderModeAny
    \/ RenderAny
    \/ ResetAny
    \/ ResetAsyncAny
    \/ StepAny
    \/ StepWhile
    \/ StepRender
    \/ StepCheckStopped
    \/ StepUpdate
    \/ StepBase
    \/ StepReturn
    \/ TimelineAny
    \/ ShutdownRecorderAny
    \/ ShutdownClear
    \/ ShutdownCloseStageAny
    \/ ShutdownApp
    \/ ShutdownUnload

Spec == Init /\ [][Next]_vars

----------------------------------------------------------------------------
(* Properties *)

\* the fields and registrations of the adapter, the engine state it acts on excluded
adapterState == <<adapterVars, cfg, is_headless, fabric_iface, shutdown_callbacks,
                  settings>>

RenderOps == {"render", "step_render"}

\* C1: HEADLESS is absorbing. Whenever the render mode is HEADLESS, a
\* set_render_mode(x) call, for every x (HEADLESS, a supported mode, an unsupported
\* value), and the mode change of a render(x) call, leave the render mode and every
\* other field of the adapter unchanged and raise no error.
C1_HeadlessAbsorbing ==
    [][(render_mode = HEADLESS /\ lastOp' \in {"set_render_mode", "render"})
        => (UNCHANGED adapterState /\ err' = "none")]_vars

\* C1 witness: a set_render_mode call has returned on a headless adapter
C1_Witness ==
    phase = "alive" /\ is_headless /\ render_mode = HEADLESS /\ lastOp = "set_render_mode"

\* the render() invocations since NO_RENDERING was entered that did not raise
okRenderCalls == renderCalls - failedRenderCalls

\* C2 as stated: in NO_RENDERING the base render is invoked on exactly the render()
\* calls whose count since the mode was entered is a multiple of the period, and
\* the counter is 0 after a triggering call and on entering NO_RENDERING.
C2_Original ==
    /\ (lastOp \in RenderOps /\ render_mode = NO_RENDERING)
         => (baseRendered <=> renderCalls % render_throttle_period = 0)
    /\ (lastOp \in RenderOps /\ render_mode = NO_RENDERING /\ baseRendered)
         => render_throttle_counter = 0
    /\ (lastOp = "set_render_mode" /\ render_mode = NO_RENDERING /\ renderCalls = 0)
         => render_throttle_counter = 0

\* C2 amended: the count is over the render() calls that do not fail with the
\* invalid-argument error (a render(x) with an unsupported x raises before the
\* counter is touched and calls no base render): the base render is invoked on
\* exactly the non-failing calls whose count is a multiple of the period; the
\* counter is that count modulo the period, hence 0 after a triggering call and on
\* entering NO_RENDERING.
C2_Throttle ==
    /\ (phase = "alive" /\ render_mode = NO_RENDERING)
         => render_throttle_counter = okRenderCalls % render_throttle_period
    /\ (lastOp \in RenderOps /\ render_mode = NO_RENDERING /\ err = "none")
         => (baseRendered <=> okRenderCalls % render_throttle_period = 0)
    /\ (lastOp \in RenderOps /\ err # "none") => ~baseRendered
    /\ (lastOp = "set_render_mode" /\ render_mode = NO_RENDERING /\ renderCalls = 0)
         => render_throttle_counter = 0

\* C2 witness: the sixth render() call in NO_RENDERING, one of the earlier ones
\* having failed, triggers the base render
C2_Witness ==
    /\ lastOp \in RenderOps /\ render_mode = NO_RENDERING /\ baseRendered
    /\ renderCalls = render_throttle_period + 1 /\ failedRenderCalls = 1

\* C3: a step() entered while the timeline is not playing delegates no base step
\* (and makes no update tick) while it is in its polling loop, and is past the loop
\* only once a check has observed the timeline playing or stopped.
C3_StepBlocks ==
    /\ step_pc \in {"while", "render", "check_stopped"}
         => (~entered_playing /\ step_base_steps = 0 /\ step_updates = 0)
    /\ (step_pc \in {"update", "base", "return"} /\ ~entered_playing)
         => observed \in {"playing", "stopped"}

\* C3 witness: a step() entered while not playing is about to return after its loop
\* has seen the timeline playing
C3_Witness ==
    step_pc = "return" /\ ~entered_playing /\ observed = "playing" /\ step_base_steps = 1

\* C4 as stated: at the moment step() leaves its waiting loop, on its way to
\* return, the timeline is playing.
C4_ReturnsOnlyWhenPlaying ==
    lastOp = "step_loop_exit" => timeline = "playing"

\* C5: while the shutdown callback has not cleared the callbacks, one or more
\* reset() calls with the shutdown-on-stop flag set leave exactly one callback
\* named "shutdown_app_on_stop" registered; there are never two.
C5_SingleRegistration ==
    /\ shutdown_callbacks <= 1
    /\ (resetCalls >= 1 /\ cfg.shutdown_app_on_stop /\ sd_pc \in {"idle", "recorder"})
         => shutdown_callbacks = 1

\* C5 witness: a second reset() has returned with the flag set
C5_Witness ==
    /\ lastOp = "reset" /\ resetCalls = 2 /\ cfg.shutdown_app_on_stop
    /\ shutdown_callbacks = 1

\* C6: for every configuration, given or defaulted, a construction with no stage
\* fails with the precondition error, writes no engine setting and does not reach
\* the base constructor.
C6_NoStageFails ==
    [][(phase = "new" /\ ~stage_exists /\ lastOp' = "construct")
        => (phase' = "failed" /\ err' = "RuntimeError" /\ settings' = settings
            /\ settings' = {} /\ ~base_init')]_vars

\* C6 witness: a construction asking for contact processing to be disabled has
\* failed for want of a stage
C6_Witness ==
    /\ phase = "failed" /\ ~stage_exists /\ err = "RuntimeError"
    /\ cfg.disable_contact_processing

UnsupportedModes == ModeArgs \ {NO_RENDERING, PARTIAL_RENDERING, FULL_RENDERING}

C8_ViewportFlags ==
    /\ [][(lastOp' = "set_render_mode" /\ phase = "alive" /\ render_mode' # render_mode)
            => /\ updates_enabled' = (render_mode' = FULL_RENDERING)
               /\ visible' = (render_mode' = FULL_RENDERING)]_vars
    /\ []((phase = "alive" /\ ~is_headless)
            => (updates_enabled <=> render_mode = FULL_RENDERING))

\* C8 witness: set_render_mode(PARTIAL_RENDERING) has hidden the viewport
C8_Witness ==
    /\ lastOp = "set_render_mode" /\ render_mode = PARTIAL_RENDERING
    /\ ~updates_enabled /\ ~visible /\ ~is_headless

\* C9: the shutdown callback is registered, and the shutdown sequence runs, only
\* after a synchronous reset() with the shutdown-on-stop flag set: with no
\* reset() call, or with the flag false, no callback is registered and no STOP
\* event shuts the application down.
C9_ShutdownOnlyIfRegistered ==
    (shutdown_callbacks > 0 \/ sd_pc # "idle" \/ ~app_running \/ ~plugins_loaded)
      => (resetCalls >= 1 /\ cfg.shutdown_app_on_stop)

\* C9 witness: with the flag set and a reset_async() but no reset(), a STOP event
\* has left the application running
C9_Witness ==
    /\ lastOp = "timeline" /\ timeline = "stopped" /\ phase = "alive"
    /\ cfg.shutdown_app_on_stop /\ resetCalls = 0
    /\ sd_pc = "idle" /\ app_running /\ shutdown_callbacks = 0

\* C10: whatever the recorder block does (skipped, completed, failed), no error
\* leaves the shutdown callback, the callback goes on to its next steps, and at its
\* end the callbacks are cleared, the application is shut down and the plugins are
\* unloaded.
C10_RecorderFailureIgnored ==
    /\ sd_pc # "raised" /\ err # "Exception"
    /\ recorder \in {"skipped", "completed", "failed"}
         => sd_pc \in {"clear", "close", "shutdown", "unload", "done"}
    /\ sd_pc = "done" => (shutdown_callbacks = 0 /\ ~app_running /\ ~plugins_loaded)
    /\ sd_pc \in {"close", "shutdown", "unload", "done"} => shutdown_callbacks = 0

\* C10 witness: the callback has completed after the recorder block failed
C10_Witness ==
    sd_pc = "done" /\ recorder = "failed" /\ ~app_running /\ ~plugins_loaded

\* the number of times the engine call c occurs in calls
Count(calls, c) == Cardinality({i \in 1..Len(calls) : calls[i] = c})

\* C11 as stated, the render mode being the one in force once render() has made its
\* optional mode change: in every mode other than NO_RENDERING each render() call
\* flushes the fabric bridge when there is one, before the base render, and calls
\* the base render exactly once; in NO_RENDERING no render() call flushes.
C11_Original ==
    /\ (lastOp \in RenderOps /\ render_mode # NO_RENDERING)
         => /\ Count(renderLog, "base_render") = 1
            /\ renderLog[Len(renderLog)] = "base_render"
            /\ Count(renderLog, "fabric_update") = (IF fabric_iface THEN 1 ELSE 0)
    /\ (lastOp \in RenderOps /\ render_mode = NO_RENDERING)
         => Count(renderLog, "fabric_update") = 0

\* C11 amended: the same of every render() call that does not fail with the
\* invalid-argument error; a call that fails with it (an unsupported mode on a
\* non-headless adapter) neither flushes nor calls the base render.
C11_FlushBeforeRender ==
    /\ (lastOp \in RenderOps /\ render_mode # NO_RENDERING /\ err = "none")
         => /\ Count(renderLog, "base_render") = 1
            /\ renderLog[Len(renderLog)] = "base_render"
            /\ Count(renderLog, "fabric_update") = (IF fabric_iface THEN 1 ELSE 0)
            /\ baseRendered /\ (flushed <=> fabric_iface)
    /\ (lastOp \in RenderOps /\ err # "none") => renderLog = <<>>
    /\ (lastOp \in RenderOps /\ render_mode = NO_RENDERING)
         => /\ Count(renderLog, "fabric_update") = 0 /\ ~flushed
            /\ Count(renderLog, "base_render") = (IF baseRendered THEN 1 ELSE 0)
    /\ (lastOp \in RenderOps /\ render_mode = HEADLESS) => err = "none"

\* C11 witness: a render() call of a headless adapter with a fabric bridge has
\* flushed it and then called the base render
C11_Witness ==
    /\ lastOp = "render" /\ render_mode = HEADLESS /\ fabric_iface
    /\ renderLog = <<"fabric_update", "base_render">>

\* the update ticks a step() call makes, given is_playing() on its entry
ExpectedUpdates == IF entered_playing THEN 0 ELSE 1

\* C12: a step() call returns only after it has delegated exactly one step to the
\* base engine, as its last action, whether its loop was left on playing or on
\* stopped; it makes the forced app.update() tick exactly once, after the loop and
\* before the base step, when the timeline was not playing on entry, and not at
\* all when it was.
C12_OneBaseStep ==
    /\ [](step_pc = "return"
            => (step_base_steps = 1 /\ step_updates = ExpectedUpdates))
    /\ [][(step_pc # "idle" /\ step_pc' = "idle") => step_pc = "return"]_vars
    /\ [][step_base_steps' > step_base_steps
            => (step_pc' = "return" /\ step_base_steps = 0
                /\ step_updates' = ExpectedUpdates)]_vars
    /\ [][step_updates' > step_updates
            => (~entered_playing /\ observed \in {"playing", "stopped"}
                /\ step_pc = "update" /\ step_updates = 0 /\ step_base_steps = 0)]_vars

\* C12 witness: a step() whose loop was left on a stopped timeline is about to
\* return after one update tick and one base step
C12_Witness ==
    /\ step_pc = "return" /\ ~entered_playing /\ observed = "stopped"
    /\ step_updates = 1 /\ step_base_steps = 1 /\ lastOp = "step_base"

\* C13: the shutdown callback acts on a STOP event only (on another event it
\* changes nothing), and its steps come in this order: the recorder block, the
\* clearing of the callbacks, the closing of the stage (only if it can be closed),
\* the shutdown of the application, the unloading of the plugins; the callbacks
\* are cleared before the application is shut down.
C13_ShutdownOrder ==
    /\ [][(sd_pc = "idle" /\ sd_pc' # "idle")
            => (lastOp' = "timeline" /\ timeline' = "stopped" /\ timeline # "stopped"
                /\ shutdown_callbacks > 0)]_vars
    /\ [][(lastOp' = "timeline" /\ timeline' # "stopped")
            => UNCHANGED <<sdVars, shutdown_callbacks, stage_exists>>]_vars
    /\ [][recorder' # recorder
            => (sd_pc = "recorder" /\ shutdown_callbacks > 0 /\ stage_exists
                /\ app_running /\ plugins_loaded)]_vars
    /\ [][shutdown_callbacks' < shutdown_callbacks
            => (sd_pc = "clear" /\ recorder # "none" /\ stage_exists
                /\ app_running /\ plugins_loaded)]_vars
    /\ [][(sd_pc = "close" /\ sd_pc' # "close")
            => /\ recorder # "none" /\ shutdown_callbacks = 0
               /\ app_running' /\ plugins_loaded'
               /\ stage_exists' = (stage_exists /\ lastOp' # "shutdown_stage_closable")]_vars
    /\ [][stage_exists' # stage_exists
            => (sd_pc = "close" /\ lastOp' = "shutdown_stage_closable")]_vars
    /\ [][app_running' # app_running
            => (sd_pc = "shutdown" /\ shutdown_callbacks = 0 /\ recorder # "none"
                /\ ~app_running' /\ plugins_loaded')]_vars
    /\ [][plugins_loaded' # plugins_loaded
            => (sd_pc = "unload" /\ ~app_running /\ shutdown_callbacks = 0
                /\ ~plugins_loaded')]_vars

\* C13 witness: the callback has run to its end on a STOP event, the recorder
\* stopped and the stage, not closable, left open
C13_Witness ==
    /\ sd_pc = "done" /\ timeline = "stopped" /\ recorder = "completed" /\ stage_exists
    /\ shutdown_callbacks = 0 /\ ~app_running /\ ~plugins_loaded

GuiModes == {NO_RENDERING, PARTIAL_RENDERING, FULL_RENDERING}

\* C14: after construction the render mode is HEADLESS exactly when is_headless()
\* is true. The headless flag never changes; a headless adapter starts, and so
\* stays, in HEADLESS; a non-headless adapter starts in FULL_RENDERING, is never
\* moved into HEADLESS, and can be moved from each of NO_RENDERING,
\* PARTIAL_RENDERING and FULL_RENDERING to each of them.
C14_HeadlessIffFlag ==
    /\ [](phase = "alive"
            => (render_mode \in RenderMode /\ (render_mode = HEADLESS <=> is_headless)))
    /\ [][phase = "alive" => is_headless' = is_headless]_vars
    /\ [][(phase = "new" /\ phase' = "alive")
            => render_mode' = (IF is_headless' THEN HEADLESS ELSE FULL_RENDERING)]_vars
    /\ [](\A m \in GuiModes :
            (phase = "alive" /\ ~is_headless)
              => (render_mode \in GuiModes
                  /\ SetRenderMode(Adapter, m).state.render_mode = m
                  /\ SetRenderMode(Adapter, m).err = "none"))
    /\ [][(phase = "alive" /\ render_mode \in GuiModes) => render_mode' \in GuiModes]_vars

\* C14 witness: a non-headless adapter, moved into NO_RENDERING, has refused a
\* render(x) call with an unsupported x and kept its mode
C14_Witness ==
    /\ phase = "alive" /\ ~is_headless /\ render_mode = NO_RENDERING
    /\ lastOp = "render" /\ err = "ValueError"
====
